---- MODULE Spec2Model ----
(***************************************************************************)
(* Persistence layer of py-invoices: the file document store              *)
(* (backends/files/storage.py), the file-backed repositories built on it  *)
(* and the in-memory repositories (backends/memory).                      *)
(***************************************************************************)
EXTENDS Integers, Sequences, FiniteSets, TLC

\* ------------------------------------------------------------------ bounds

\* Largest document ID (and number of allocations) of the FileStorage-level
\* models.
MaxId == 2
\* Number of get_next_id calls the counter model follows.
MaxAlloc == 4
\* Number of FileStorage instances opened after the first one.
MaxReopen == 2
\* Number of create / add calls the repository-level models follow.
MaxCreates == 3
\* Largest limit handed to get_all.
MaxLimit == 2

\* ------------------------------------------------------------ value domain

\* Python None, as it appears in a field of an entity.
Null == "<None>"
\* save(entity, id) called without a format: fmt is None (falsy).
NoFmt == ""
\* The extensions _find_entity_file tries, in its order.
Extensions == <<"json", "xml", "md">>
\* Format tokens a caller may pass to save; "yaml" is not one save() knows.
FmtArgs == {NoFmt, "json", "xml", "md", "yaml"}
\* Default formats of the configuration surface.
DefaultFormats == {"json", "xml", "md"}
\* The repository kinds by the code of their create / get / update / delete:
\* the file-backed repositories of all six kinds have the bodies of the client
\* repository; so have the in-memory ones but MemoryPaymentNoteRepository.
FileKinds == {"client"}
MemKinds == {"client", "payment_note"}
\* Field values of the Create schemas handed to create / add.
Payloads ==
    { [name |-> "Acme", note |-> Null],
      [name |-> "Acme Corp", note |-> "vip"] }

\* str(n) and its inverse (pydantic parses a numeric string for an int field).
Digits == <<"1", "2", "3", "4", "5", "6", "7", "8", "9">>
Str(n) == Digits[n]
ParseInt(s) == CHOOSE n \in 1..Len(Digits) : Digits[n] = s

Min(a, b) == IF a < b THEN a ELSE b
Max(a, b) == IF a > b THEN a ELSE b
Range(s) == { s[i] : i \in 1..Len(s) }

\* ---------------------------------------------------------------- entities

\* Client(id=client_id, **data.model_dump()) and its siblings.
MakeEntity(id, p) == [id |-> id, name |-> p.name, note |-> p.note]
\* AuditLogEntry(**data): the schema declares no id field.
MakeLogEntry(p) == [name |-> p.name, note |-> p.note]

\* getattr(x, "id", 0): the sort key of load_all.
IdOf(e) == IF "id" \in DOMAIN e THEN e.id ELSE 0

\* entity.model_dump(mode="json", exclude_none=...).
ModelDump(e, exclude_none) ==
    [f \in { g \in DOMAIN e : ~exclude_none \/ g = "id" \/ e[g] # Null } |-> e[f]]

\* ------------------------------------------------------------------ codecs
\* A stored document is [text |-> BOOLEAN, fields |-> mapping]: text is TRUE
\* when every value was written as a string (XML element text).

\* json.dump(data): the mapping as it is, null kept.
SaveJson(data) == [text |-> FALSE, fields |-> data]
\* "---\n" + json.dumps(data) + "\n---\n": the same mapping in a frontmatter.
SaveMarkdown(data) == [text |-> FALSE, fields |-> data]
\* dict_to_xml: one child element per key, its text str(value).
SaveXml(data) ==
    [text |-> TRUE,
     fields |-> [f \in DOMAIN data |-> IF f = "id" THEN Str(data[f]) ELSE data[f]]]

\* model_class.model_validate(data): numeric strings become ints, a missing
\* optional field takes its default None.
ModelValidate(doc) ==
    LET d == doc.fields
        note == IF "note" \in DOMAIN d THEN d["note"] ELSE Null
    IN  IF "id" \in DOMAIN d
        THEN [id |-> IF doc.text THEN ParseInt(d["id"]) ELSE d["id"],
              name |-> d["name"], note |-> note]
        ELSE [name |-> d["name"], note |-> note]

\* ------------------------------------------------------------- FileStorage
\* A file of the entity directory (other than _meta.json) is
\* [id, friendly, ext, doc]: its name is "{id}.{ext}" when friendly = "" and
\* "{id}.{friendly}.{ext}" otherwise.

VARIABLES
    files,           \* the entity directory's document files
    meta,            \* _meta.json: NoMeta when absent, else what the file holds
    next_id,         \* FileStorage._next_id of the open instance
    default_format,  \* FileStorage.default_format of the open instance
    instance,        \* how many instances were opened after the first
    backend,         \* "storage" | "files" | "memory" | "audit"
    kind,            \* the repository's entity kind
    mem,             \* a memory repository's _storage, in insertion order
    mem_next_id,     \* a memory repository's _next_id
    issued,          \* history: the IDs handed out, with the instance
    removed,         \* history: the issued ID whose document a delete removed last
    ret,             \* the last call and what it returned
    plugins,         \* PluginRegistry._plugins: [name, cls] in insertion order
    registered_backends, \* RepositoryFactory._registered_backends
    modules,         \* the backend plugin modules imported so far (sys.modules)
    installed,       \* whether the SQL backends' dependencies can be imported
    plugin,          \* the plugin instance in hand (a factory's or a bare one)
    block,           \* the position in a with-block over a factory
    heap,            \* the in-memory repository objects, in order of construction
    factories,       \* the memory-backend factories built: their plugin's fields
    handles,         \* the repositories create_<kind>_repository has returned
    peer,            \* a second FileStorage instance open on the same directory
    status,          \* the status of an invoice
    trail            \* history: the statuses the invoice was moved to, in order

\* The plugin system of the process (plugins/registry.py, plugins/factory.py).
pluginVars == <<plugins, registered_backends, modules, installed, plugin, block>>

\* The stores of the factories of a process, a second storage instance, and
\* an invoice's status: what the actions on one store and on the registry
\* leave alone.
otherVars == <<heap, factories, handles, peer, status, trail>>

vars == <<files, meta, next_id, default_format, instance, backend, kind, otherVars,
          pluginVars, mem, mem_next_id, issued, removed, ret>>

storeVars == <<files, meta, next_id, default_format, instance>>
memVars == <<mem, mem_next_id>>

\* ret: op is the call, id / fmt / skip / limit its arguments, ok / err / val /
\* ents what it returned or raised (ents also holds an entity argument), and
\* before the extension of the file _find_entity_file found when it started.
NoCall ==
    [op |-> "init", id |-> 0, fmt |-> NoFmt, ok |-> TRUE, err |-> "",
     val |-> 0, skip |-> 0, limit |-> 0, ents |-> <<>>, before |-> ""]
Call(op, id, fmt, ok, err, val, ents) ==
    [op |-> op, id |-> id, fmt |-> fmt, ok |-> ok, err |-> err,
     val |-> val, skip |-> 0, limit |-> 0, ents |-> ents, before |-> ""]

\* self.entity_dir / f"{entity_id}.{fmt}"
FilePath(id, ext) == [id |-> id, friendly |-> "", ext |-> ext]
NameOf(f) == [id |-> f.id, friendly |-> f.friendly, ext |-> f.ext]
Exists(fs, path) == \E f \in fs : NameOf(f) = path

\* _find_entity_file: the first of {id}.json, {id}.xml, {id}.md that exists;
\* <<>> is None.
FindEntityFile(fs, id) ==
    LET hits == { i \in 1..Len(Extensions) : Exists(fs, FilePath(id, Extensions[i])) }
    IN  IF hits = {} THEN <<>>
        ELSE LET first == CHOOSE i \in hits : \A j \in hits : i <= j
             IN  << FilePath(id, Extensions[first]) >>

\* existing_file.unlink()
Unlink(fs, path) == { f \in fs : NameOf(f) # path }
\* open(path, "w") and write: creates the file or replaces its content.
WriteFile(fs, path, doc) ==
    Unlink(fs, path) \cup
        { [id |-> path.id, friendly |-> path.friendly, ext |-> path.ext, doc |-> doc] }
ReadFile(fs, path) == (CHOOSE f \in fs : NameOf(f) = path).doc

\* The extension of the file _find_entity_file finds, "" when it finds none.
FoundExt(fs, id) ==
    LET path == FindEntityFile(fs, id) IN IF path = <<>> THEN "" ELSE path[1].ext

\* save(): the format it writes.
SaveFormat(df, fmt) == IF fmt = NoFmt THEN df ELSE fmt

\* Mutant: save leaves the file of another format in place.
RemoveOtherNever(fs, existing, fmt) == fs
\* save(): the existing file is removed when its suffix is not the format.
RemoveOther(fs, existing, fmt) ==
    IF existing # <<>> /\ existing[1].ext # fmt THEN Unlink(fs, existing[1]) ELSE fs

\* save(): [files, err]; err = "" when it returned the path.
StorageSave(fs, df, e, id, fmtArg) ==
    LET fmt == SaveFormat(df, fmtArg)
        existing == FindEntityFile(fs, id)
        fs1 == RemoveOther(fs, existing, fmt)
        path == FilePath(id, fmt)
        data == ModelDump(e, fmt = "xml")
    IN  CASE fmt = "json" -> [files |-> WriteFile(fs1, path, SaveJson(data)), err |-> ""]
          [] fmt = "md"   -> [files |-> WriteFile(fs1, path, SaveMarkdown(data)), err |-> ""]
          [] fmt = "xml"  -> [files |-> WriteFile(fs1, path, SaveXml(data)), err |-> ""]
          [] OTHER        -> [files |-> fs1, err |-> "ValueError"]

\* load(): <<>> is None, else the validated entity.
StorageLoad(fs, id) ==
    LET path == FindEntityFile(fs, id)
    IN  IF path = <<>> THEN <<>>
        ELSE << ModelValidate(ReadFile(fs, path[1])) >>

\* Mutant: delete reports success also when it found no file.
StorageDeleteBlind(fs, id) ==
    LET path == FindEntityFile(fs, id)
    IN  [files |-> IF path # <<>> THEN Unlink(fs, path[1]) ELSE fs, ok |-> TRUE]
\* delete(): [files, ok].
StorageDelete(fs, id) ==
    LET path == FindEntityFile(fs, id)
    IN  IF path # <<>> THEN [files |-> Unlink(fs, path[1]), ok |-> TRUE]
        ELSE [files |-> fs, ok |-> FALSE]

\* entities.sort(key=...): Python's sort is stable; insertion sort is too.
RECURSIVE InsertSorted(_, _)
InsertSorted(s, e) ==
    IF s = <<>> THEN <<e>>
    ELSE IF IdOf(s[Len(s)]) <= IdOf(e) THEN Append(s, e)
    ELSE Append(InsertSorted(SubSeq(s, 1, Len(s) - 1), e), s[Len(s)])
RECURSIVE SortById(_)
SortById(s) ==
    IF s = <<>> THEN <<>>
    ELSE InsertSorted(SortById(SubSeq(s, 1, Len(s) - 1)), s[Len(s)])

\* The orders in which iterdir() may enumerate the directory.
DirOrders(fs) ==
    { o \in [1..Cardinality(fs) -> fs] : \A i, j \in DOMAIN o : i # j => o[i] # o[j] }

\* load_all() over one enumeration order: a file whose stem is all digits
\* ("{id}.{ext}") is loaded through load(int(stem)).
RECURSIVE CollectAll(_, _, _)
CollectAll(fs, order, i) ==
    IF i > Len(order) THEN <<>>
    ELSE LET f == order[i]
             got == IF f.friendly = "" THEN StorageLoad(fs, f.id) ELSE <<>>
         IN  got \o CollectAll(fs, order, i + 1)
StorageLoadAll(fs, order) == SortById(CollectAll(fs, order, 1))

\* _meta.json.  text tells what the file holds: "absent" (no file), "next_id"
\* (the object {"next_id": n}, n in the field next_id), "object" (a JSON
\* object without the key, {}), "list" (JSON whose top-level value is not an
\* object, []) or "not json" (text json.load cannot parse, such as an empty or
\* truncated file).
NoMeta == [text |-> "absent", next_id |-> 0]
\* Mutant: the counter is written as it was before the increment.
SaveMetaStale(n) == [text |-> "next_id", next_id |-> n - 1]
\* _save_meta(): json.dump({"next_id": self._next_id}, f, indent=2)
SaveMeta(n) == [text |-> "next_id", next_id |-> n]
\* What a directory's _meta.json can hold when a store is opened on it.
MetaContents ==
    {NoMeta} \cup { SaveMeta(n) : n \in 1..MaxAlloc }
             \cup { [text |-> t, next_id |-> 0] : t \in {"object", "list", "not json"} }

\* Mutant: the constructor does not read _meta.json.
LoadMetaSkipped(m) == 1
\* _load_meta(): data.get("next_id", 1) when _meta.json exists and parses to an
\* object; the counter keeps its 1 when the file is absent or json.load raises
\* JSONDecodeError.
LoadMeta(m) == IF m.text = "next_id" THEN m.next_id ELSE 1
\* _load_meta(): only json.JSONDecodeError is caught; data.get on a value that
\* is not a dict raises AttributeError out of the constructor.
LoadMetaError(m) == IF m.text = "list" THEN "AttributeError" ELSE ""

\* ------------------------------------------------- FileStorage operations

\* Mutant: the counter is not advanced.
IncrementForgotten(n) == n
\* self._next_id += 1
Increment(n) == n + 1

\* get_next_id(): returns the counter, increments it and writes _meta.json.
GetNextId(cap) ==
    /\ next_id <= cap
    /\ next_id' = Increment(next_id)
    /\ meta' = SaveMeta(next_id')
    /\ issued' = Append(issued, [id |-> next_id, inst |-> instance])
    /\ ret' = Call("get_next_id", 0, NoFmt, TRUE, "", next_id, <<>>)
    /\ UNCHANGED <<files, default_format, instance, backend, kind, otherVars, pluginVars, memVars, removed>>

\* save(entity, entity_id, fmt), the entity built from one of the payloads P.
Save(P) ==
    \E p \in P, id \in 1..MaxId, fmt \in FmtArgs :
        LET r == StorageSave(files, default_format, MakeEntity(id, p), id, fmt)
        IN  /\ files' = r.files
            /\ ret' = [Call("save", id, fmt, r.err = "", r.err, 0, <<MakeEntity(id, p)>>)
                          EXCEPT !.before = FoundExt(files, id)]
            /\ UNCHANGED <<meta, next_id, default_format, instance, backend, kind, otherVars, pluginVars,
                           memVars, issued, removed>>

\* load(entity_id)
Load ==
    \E id \in 1..MaxId :
        /\ ret' = Call("load", id, NoFmt, TRUE, "", 0, StorageLoad(files, id))
        /\ UNCHANGED <<storeVars, backend, kind, otherVars, pluginVars, memVars, issued, removed>>

\* delete(entity_id)
Delete ==
    \E id \in 1..MaxId :
        LET r == StorageDelete(files, id)
        IN  /\ files' = r.files
            /\ removed' = IF r.ok /\ id \in { x.id : x \in Range(issued) }
                          THEN id ELSE removed
            /\ ret' = [Call("delete", id, NoFmt, r.ok, "", 0, <<>>)
                          EXCEPT !.before = FoundExt(files, id)]
            /\ UNCHANGED <<meta, next_id, default_format, instance, backend, kind, otherVars, pluginVars,
                           memVars, issued>>

\* load_all()
LoadAll ==
    \E order \in DirOrders(files) :
        /\ ret' = Call("load_all", 0, NoFmt, TRUE, "", 0, StorageLoadAll(files, order))
        /\ UNCHANGED <<storeVars, backend, kind, otherVars, pluginVars, memVars, issued, removed>>

\* FileStorage(root_dir, entity_name, model_class, default_format) on the
\* directory an earlier instance used: _next_id = 1, then _load_meta().
Reopen ==
    \E df \in DefaultFormats :
        /\ instance < MaxReopen
        /\ IF LoadMetaError(meta) = ""
           THEN /\ instance' = instance + 1
                /\ default_format' = df
                /\ next_id' = LoadMeta(meta)
                /\ ret' = Call("open", 0, df, TRUE, "", 0, <<>>)
           ELSE /\ ret' = Call("open", 0, df, FALSE, LoadMetaError(meta), 0, <<>>)
                /\ UNCHANGED <<instance, default_format, next_id>>
        /\ UNCHANGED <<files, meta, backend, kind, otherVars, pluginVars, memVars, issued, removed>>

\* No plugin instance in hand.
NoPlugin == [cls |-> "", ready |-> {}, initialized |-> FALSE, cleanups |-> 0, owner |-> ""]

\* No second instance is open on the directory.
NoPeer == [open |-> FALSE, next_id |-> 0]

\* A process that has imported no backend and built no factory; no second
\* storage instance; an invoice in its initial status.
PristineProcess ==
    /\ heap = <<>>
    /\ factories = <<>>
    /\ handles = {}
    /\ peer = NoPeer
    /\ status = "DRAFT"
    /\ trail = <<>>
    /\ plugins = <<>>
    /\ registered_backends = FALSE
    /\ modules = {}
    /\ plugin = NoPlugin
    /\ block = "outside"

\* A FileStorage (or a repository) just constructed on an empty directory.
InitStore(b, ks) ==
    /\ PristineProcess
    /\ installed = TRUE
    /\ files = {}
    /\ meta = NoMeta
    /\ next_id = 1
    /\ default_format \in DefaultFormats
    /\ instance = 0
    /\ backend = b
    /\ kind \in ks
    /\ mem = <<>>
    /\ mem_next_id = 1
    /\ issued = <<>>
    /\ removed = 0
    /\ ret = NoCall

\* One FileStorage instance: allocation interleaved with save, load, delete.
Init == InitStore("storage", {"item"})

Next ==
    \/ GetNextId(MaxId)
    \/ Save({ [name |-> "Acme", note |-> Null] })
    \/ Load
    \/ Delete

Spec == Init /\ [][Next]_vars

\* The ID counter alone: allocations split across instances opened one after
\* another on the same directory.
NextCounter ==
    \/ GetNextId(MaxAlloc)
    \/ Reopen

SpecCounter == Init /\ [][NextCounter]_vars

\* The documents of a directory: saves in every format, loads and deletes.
NextFormats ==
    \/ Save(Payloads)
    \/ Load
    \/ LoadAll
    \/ Delete

SpecFormats == Init /\ [][NextFormats]_vars

\* ------------------------------------------------------------ list slices

\* s[a:b] of Python, for any integers a and b.
PySlice(s, a, b) ==
    LET n == Len(s)
        lo == IF a < 0 THEN Max(a + n, 0) ELSE Min(a, n)
        hi == IF b < 0 THEN Max(b + n, 0) ELSE Min(b, n)
    IN  IF lo >= hi THEN <<>> ELSE SubSeq(s, lo + 1, hi)

\* ------------------------------------------------- file-backed repositories
\* FileClientRepository and its five siblings (invoice, payment, company,
\* product, payment note) hold one FileStorage and share these bodies.

\* Mutant: update saves whether or not the ID is stored (an upsert).
UpdateAllowedAlways(existing) == TRUE
\* update(): "if not existing: raise ValueError(... not found)".
UpdateAllowed(existing) == existing # <<>>

\* create(data): get_next_id(), build the entity, save(entity, id).
FileCreate ==
    /\ backend = "files"
    /\ Len(issued) < MaxCreates
    /\ \E p \in Payloads :
        LET id == next_id
            e == MakeEntity(id, p)
            r == StorageSave(files, default_format, e, id, NoFmt)
        IN  /\ next_id' = Increment(next_id)
            /\ meta' = SaveMeta(next_id')
            /\ files' = r.files
            /\ issued' = Append(issued, [id |-> id, inst |-> instance])
            /\ ret' = Call("create", id, NoFmt, r.err = "", r.err, id, <<e>>)
    /\ UNCHANGED <<default_format, instance, backend, kind, otherVars, pluginVars, memVars, removed>>

\* get_by_id(id): storage.load(id).
FileGetById ==
    /\ backend = "files"
    /\ \E id \in 1..MaxCreates :
        ret' = Call("get_by_id", id, NoFmt, TRUE, "", 0, StorageLoad(files, id))
    /\ UNCHANGED <<storeVars, backend, kind, otherVars, pluginVars, memVars, issued, removed>>

\* get_all(skip, limit): storage.load_all()[skip : skip + limit].
FileGetAll ==
    /\ backend = "files"
    /\ \E order \in DirOrders(files) :
        LET all == StorageLoadAll(files, order)
        IN  \E skip \in 0..MaxLimit, limit \in 1..MaxLimit :
                ret' = [Call("get_all", 0, NoFmt, TRUE, "", 0,
                             PySlice(all, skip, skip + limit))
                        EXCEPT !.skip = skip, !.limit = limit]
    /\ UNCHANGED <<storeVars, backend, kind, otherVars, pluginVars, memVars, issued, removed>>

\* update(entity): load(entity.id), raise when absent, else save(entity, entity.id).
FileUpdate ==
    /\ backend = "files"
    /\ \E p \in Payloads, id \in 1..MaxCreates :
        LET e == MakeEntity(id, p)
            existing == StorageLoad(files, id)
            r == StorageSave(files, default_format, e, id, NoFmt)
        IN  IF UpdateAllowed(existing)
            THEN /\ files' = r.files
                 /\ ret' = Call("update", id, NoFmt, r.err = "", r.err, 0, <<e>>)
            ELSE /\ files' = files
                 /\ ret' = Call("update", id, NoFmt, FALSE, "ValueError: not found", 0, <<e>>)
    /\ UNCHANGED <<meta, next_id, default_format, instance, backend, kind, otherVars, pluginVars,
                   memVars, issued, removed>>

\* delete(id): storage.delete(id).
FileDelete ==
    /\ backend = "files"
    /\ \E id \in 1..MaxCreates :
        LET r == StorageDelete(files, id)
        IN  /\ files' = r.files
            /\ ret' = Call("delete", id, NoFmt, r.ok, "", 0, <<>>)
    /\ UNCHANGED <<meta, next_id, default_format, instance, backend, kind, otherVars, pluginVars,
                   memVars, issued, removed>>

\* --------------------------------------------------- in-memory repositories
\* _storage is a dict: a sequence of entities in insertion order, keyed by
\* their id (create and update store an entity under its own id).

\* self._storage.get(key): <<>> is None.
DictGet(m, k) ==
    LET hit == { i \in 1..Len(m) : m[i].id = k }
    IN  IF hit = {} THEN <<>> ELSE << m[CHOOSE i \in hit : TRUE] >>
\* self._storage[key] = e: a present key keeps its position.
DictSet(m, k, e) ==
    IF DictGet(m, k) = <<>> THEN Append(m, e)
    ELSE [i \in 1..Len(m) |-> IF m[i].id = k THEN e ELSE m[i]]
\* del self._storage[key]
RECURSIVE DictDel(_, _)
DictDel(m, k) ==
    IF m = <<>> THEN <<>>
    ELSE IF m[1].id = k THEN DictDel(Tail(m), k)
    ELSE <<m[1]>> \o DictDel(Tail(m), k)

\* The ID create() gives the new entity: MemoryPaymentNoteRepository takes
\* len(self._storage) + 1, the five other repositories self._next_id.
NewMemId(k, m, n) == IF k = "payment_note" THEN Len(m) + 1 ELSE n
\* create(): self._next_id += 1, in the repositories that keep a counter.
AdvanceMemId(k, n) == IF k = "payment_note" THEN n ELSE n + 1

\* "if entity.id not in self._storage: raise ValueError(... not found)".
MemUpdateAllowed(m, k) == DictGet(m, k) # <<>>

\* "if id in self._storage: del ...; return True" else "return False".
MemRemove(m, k) ==
    IF DictGet(m, k) # <<>> THEN [mem |-> DictDel(m, k), ok |-> TRUE]
    ELSE [mem |-> m, ok |-> FALSE]

\* The in-memory actions follow n create calls and IDs 1..n.

\* create(data)
MemCreate(n) ==
    /\ backend = "memory"
    /\ Len(issued) < n
    /\ \E p \in Payloads :
        LET id == NewMemId(kind, mem, mem_next_id)
            e == MakeEntity(id, p)
        IN  /\ mem' = DictSet(mem, id, e)
            /\ mem_next_id' = AdvanceMemId(kind, mem_next_id)
            /\ issued' = Append(issued, [id |-> id, inst |-> instance])
            /\ ret' = [Call("create", id, NoFmt, TRUE, "", id, <<e>>)
                       EXCEPT !.before = IF DictGet(mem, id) # <<>> THEN "stored" ELSE ""]
    /\ UNCHANGED <<storeVars, backend, kind, otherVars, pluginVars, removed>>

\* get_by_id(id)
MemGetById(n) ==
    /\ backend = "memory"
    /\ \E id \in 1..n :
        ret' = Call("get_by_id", id, NoFmt, TRUE, "", 0, DictGet(mem, id))
    /\ UNCHANGED <<storeVars, backend, kind, otherVars, pluginVars, memVars, issued, removed>>

\* get_all(skip, limit): list(self._storage.values())[skip : skip + limit].
MemGetAll(n) ==
    /\ backend = "memory"
    /\ \E skip \in 0..MaxLimit, limit \in 1..MaxLimit :
        ret' = [Call("get_all", 0, NoFmt, TRUE, "", 0, PySlice(mem, skip, skip + limit))
                EXCEPT !.skip = skip, !.limit = limit]
    /\ UNCHANGED <<storeVars, backend, kind, otherVars, pluginVars, memVars, issued, removed>>

\* update(entity)
MemUpdate(n) ==
    /\ backend = "memory"
    /\ \E p \in Payloads, id \in 1..n :
        LET e == MakeEntity(id, p)
        IN  IF MemUpdateAllowed(mem, id)
            THEN /\ mem' = DictSet(mem, id, e)
                 /\ ret' = Call("update", id, NoFmt, TRUE, "", 0, <<e>>)
            ELSE /\ mem' = mem
                 /\ ret' = Call("update", id, NoFmt, FALSE, "ValueError: not found", 0, <<e>>)
    /\ UNCHANGED <<storeVars, backend, kind, otherVars, pluginVars, mem_next_id, issued, removed>>

\* delete(id)
MemDelete(n) ==
    /\ backend = "memory"
    /\ \E id \in 1..n :
        LET r == MemRemove(mem, id)
        IN  /\ mem' = r.mem
            /\ ret' = Call("delete", id, NoFmt, r.ok, "", 0, <<>>)
    /\ UNCHANGED <<storeVars, backend, kind, otherVars, pluginVars, mem_next_id, issued, removed>>

\* An in-memory repository just constructed.
InitMemory == InitStore("memory", MemKinds) /\ default_format = "json"

\* A repository of one kind just obtained from a plugin: file-backed on an
\* empty directory with the configured file format, or in-memory.
InitRepo ==
    \/ InitStore("files", FileKinds)
    \/ InitMemory

NextRepo ==
    \/ FileCreate
    \/ FileGetById
    \/ FileGetAll
    \/ FileUpdate
    \/ FileDelete
    \/ MemCreate(MaxCreates)
    \/ MemGetById(MaxCreates)
    \/ MemGetAll(MaxCreates)
    \/ MemUpdate(MaxCreates)
    \/ MemDelete(MaxCreates)

SpecRepo == InitRepo /\ [][NextRepo]_vars

\* The in-memory repositories alone, followed one create call further.
NextMemory ==
    \/ MemCreate(MaxCreates + 1)
    \/ MemGetById(MaxCreates + 1)
    \/ MemGetAll(MaxCreates + 1)
    \/ MemUpdate(MaxCreates + 1)
    \/ MemDelete(MaxCreates + 1)

SpecMemory == InitMemory /\ [][NextMemory]_vars

\* What get_by_id(id) returns on the directory fs / the dict m, and in this state.
RepoGetIn(fs, m, id) == IF backend = "memory" THEN DictGet(m, id) ELSE StorageLoad(fs, id)
RepoGet(id) == RepoGetIn(files, mem, id)

\* ---------------------------------------------- file-backed audit repository

\* add(entry): get_next_id(), then save(entry, log_id); the entry has no id.
AuditAdd ==
    /\ backend = "audit"
    /\ Len(issued) < MaxCreates
    /\ \E p \in Payloads :
        LET id == next_id
            e == MakeLogEntry(p)
            r == StorageSave(files, default_format, e, id, NoFmt)
        IN  /\ next_id' = Increment(next_id)
            /\ meta' = SaveMeta(next_id')
            /\ files' = r.files
            /\ issued' = Append(issued, [id |-> id, inst |-> instance])
            /\ ret' = Call("add", id, NoFmt, r.err = "", r.err, id, <<e>>)
    /\ UNCHANGED <<default_format, instance, backend, kind, otherVars, pluginVars, memVars, removed>>

\* get_all(skip, limit): storage.load_all()[skip : skip + limit].
AuditGetAll ==
    /\ backend = "audit"
    /\ \E order \in DirOrders(files) :
        LET all == StorageLoadAll(files, order)
        IN  \E skip \in 0..MaxLimit, limit \in 1..MaxLimit :
                ret' = [Call("get_all", 0, NoFmt, TRUE, "", 0,
                             PySlice(all, skip, skip + limit))
                        EXCEPT !.skip = skip, !.limit = limit]
    /\ UNCHANGED <<storeVars, backend, kind, otherVars, pluginVars, memVars, issued, removed>>

InitAudit == InitStore("audit", {"audit"})

NextAudit ==
    \/ AuditAdd
    \/ AuditGetAll
    \/ LoadAll

SpecAudit == InitAudit /\ [][NextAudit]_vars

\* ------------------------------------------- a directory with friendly names

\* The name "{id}.{friendly}.{ext}" of the on-disk layout.
FriendlyName == "acme-invoice"

\* The document save() writes for an entity in one format.
Encode(fmt, e) ==
    CASE fmt = "json" -> SaveJson(ModelDump(e, FALSE))
      [] fmt = "md"   -> SaveMarkdown(ModelDump(e, FALSE))
      [] fmt = "xml"  -> SaveXml(ModelDump(e, TRUE))

\* A FileStorage constructed on a directory (mkdir(exist_ok=True)) that holds
\* one document under a friendly file name and the counter right after its ID.
InitFriendly ==
    /\ PristineProcess
    /\ installed = TRUE
    /\ \E id \in 1..MaxId, p \in Payloads, i \in 1..Len(Extensions) :
        /\ files = { [id |-> id, friendly |-> FriendlyName, ext |-> Extensions[i],
                      doc |-> Encode(Extensions[i], MakeEntity(id, p))] }
        /\ meta = SaveMeta(id + 1)
    /\ next_id = LoadMeta(meta)
    /\ default_format \in DefaultFormats
    /\ instance = 0
    /\ backend = "storage"
    /\ kind = "item"
    /\ mem = <<>>
    /\ mem_next_id = 1
    /\ issued = <<>>
    /\ removed = 0
    /\ ret = NoCall

SpecFriendly == InitFriendly /\ [][NextFormats]_vars

\* ------------------------------------------------------ storage-level claims

\* C1: within one FileStorage instance, across any interleaving of get_next_id,
\* save, load and delete, the IDs get_next_id returns are strictly increasing
\* (so none is returned twice, also not after its document was deleted), and
\* each call returns the ID recorded for it.
C1_IdsStrictlyIncreasing ==
    /\ \A i, j \in 1..Len(issued) : i < j => issued[i].id < issued[j].id
    /\ ret.op = "get_next_id" => ret.val = issued[Len(issued)].id

\* C1 witness: get_next_id has returned an ID after the document saved under an
\* earlier issued ID was deleted.
C1_Witness ==
    /\ ret.op = "get_next_id"
    /\ removed # 0
    /\ ret.val > removed

\* C3: from an empty directory the k-th get_next_id call overall returns k,
\* however the calls are split across instances opened one after another.
C3_KthCallReturnsK ==
    /\ \A k \in 1..Len(issued) : issued[k].id = k
    /\ ret.op = "get_next_id" => ret.val = Len(issued)

\* C3 witness: MaxAlloc calls were made, by more than one instance.
C3_Witness ==
    /\ Len(issued) = MaxAlloc
    /\ \E k \in 1..(Len(issued) - 1) : issued[k].inst # issued[k + 1].inst

\* C8: every ID has at most one file; and after a save that returned, the one
\* file of its ID is "{id}.{fmt}" (the format asked for, else the default).
C8_OneFilePerId ==
    /\ \A f, g \in files : f.id = g.id => f = g
    /\ (ret.op = "save" /\ ret.ok) =>
          { NameOf(f) : f \in { g \in files : g.id = ret.id } }
              = { FilePath(ret.id, SaveFormat(default_format, ret.fmt)) }

\* C8 witness: a save with an explicit format replaced a document stored in
\* another format.
C8_Witness ==
    /\ ret.op = "save"
    /\ ret.ok
    /\ ret.fmt # NoFmt
    /\ ret.before \notin {"", ret.fmt}

\* C9: a save without a format rewrites an existing document in the format it
\* already has, and writes a new one as "{id}.{default_format}".
C9_SavePreservesFormat ==
    (ret.op = "save" /\ ret.ok /\ ret.fmt = NoFmt) =>
        LET ext == IF ret.before # "" THEN ret.before ELSE default_format
        IN  { NameOf(f) : f \in { g \in files : g.id = ret.id } }
                = { FilePath(ret.id, ext) }

\* --------------------------------------------------- repository-level claims

\* The IDs a repository of these models can hold.
RepoIds == 1..(MaxCreates + 1)
RepoStored(id) == RepoGet(id) # <<>>
RepoStoredIdsIn(fs, m) == { id \in RepoIds : RepoGetIn(fs, m, id) # <<>> }
RepoStoredIds == RepoStoredIdsIn(files, mem)

\* The stored entities in ascending order of ID.
RECURSIVE Ascending(_)
Ascending(S) ==
    IF S = {} THEN <<>>
    ELSE LET m == CHOOSE x \in S : \A y \in S : x <= y
         IN  <<m>> \o Ascending(S \ {m})
StoredById ==
    LET ids == Ascending(RepoStoredIds) IN [i \in 1..Len(ids) |-> RepoGet(ids[i])[1]]

\* Positions skip .. skip + limit - 1 (from 0) of s.
Window(s, skip, limit) ==
    [i \in 1..Max(0, Min(limit, Len(s) - skip)) |-> s[skip + i]]

\* C2: in an in-memory repository, create never returns an ID an earlier create
\* returned and never replaces an entity that is still stored.
C2_CreateIdsFresh ==
    backend = "memory" =>
        /\ \A i, j \in 1..Len(issued) : i # j => issued[i].id # issued[j].id
        /\ ret.op = "create" => ret.before = ""

\* C4: delete(id) never raises; it returns true exactly when get_by_id(id) found
\* an entity right before the call; afterwards get_by_id(id) is absent, every
\* other ID is stored with the entity it had, and a delete(id) that directly
\* follows a delete(id) returns false.
C4_Delete ==
    [][ ret'.op = "delete" =>
          /\ ret'.err = ""
          /\ ret'.ok = RepoStored(ret'.id)
          /\ RepoGetIn(files', mem', ret'.id) = <<>>
          /\ \A other \in RepoIds \ {ret'.id} :
                RepoGetIn(files', mem', other) = RepoGet(other)
          /\ (ret.op = "delete" /\ ret.id = ret'.id) => ~ret'.ok
      ]_vars

\* C4 witness: a delete on a file-backed repository removed an entity and left
\* another one stored.
C4_Witness ==
    /\ backend = "files"
    /\ ret.op = "delete"
    /\ ret.ok
    /\ RepoStoredIds # {}

\* C5: update(entity) raises not-found when entity.id is not stored and then
\* leaves the stored entities and the ID counter as they were; when it is stored
\* get_by_id(entity.id) afterwards returns the entity handed in and the set of
\* stored IDs is the same.
C5_Update ==
    [][ ret'.op = "update" =>
          LET e == ret'.ents[1]
          IN  IF ~RepoStored(e.id)
              THEN /\ ret'.err = "ValueError: not found"
                   /\ UNCHANGED <<files, meta, next_id, mem, mem_next_id>>
              ELSE /\ ret'.err = ""
                   /\ RepoGetIn(files', mem', e.id) = <<e>>
                   /\ RepoStoredIdsIn(files', mem') = RepoStoredIds
                   /\ UNCHANGED <<meta, next_id, mem_next_id>>
      ]_vars

\* C5 witness: an update of an ID that was created and deleted raised not-found
\* while other entities are stored.
C5_Witness ==
    /\ backend = "files"
    /\ ret.op = "update"
    /\ ret.err = "ValueError: not found"
    /\ ret.id < next_id
    /\ RepoStoredIds # {}

\* C6: get_all(skip, limit) returns the entities at positions skip ..
\* skip + limit - 1 of the stored entities sorted by ID ascending (the empty
\* sequence when skip is at least their number).
C6_GetAllWindow ==
    ret.op = "get_all" => ret.ents = Window(StoredById, ret.skip, ret.limit)

\* ------------------------------------------------------- load_all and names

\* The documents in ascending order of the ID in their file name.
DocsByFileId ==
    LET ids == Ascending({ f.id : f \in files })
    IN  [i \in 1..Len(ids) |-> StorageLoad(files, ids[i])[1]]

\* C7: load_all returns the documents in ascending order of the ID they are
\* stored under, whatever order the directory enumerates them in.
C7_LoadAllByStoredId ==
    ret.op = "load_all" => ret.ents = DocsByFileId

\* C10: a document stored as "{id}.{friendly}.{ext}" is found by its ID like one
\* stored as "{id}.{ext}": load(id) returns it, load_all includes it, save
\* rewrites its file (the ID keeps one file), delete removes it.
C10_FriendlyLikePlain ==
    LET has(id) == \E f \in files : f.id = id
    IN  /\ ret.op = "load" => (ret.ents # <<>> <=> has(ret.id))
        /\ ret.op = "load_all" => Len(ret.ents) = Cardinality({ f.id : f \in files })
        /\ (ret.op = "save" /\ ret.ok) =>
               Cardinality({ f \in files : f.id = ret.id }) = 1
        /\ ret.op = "delete" => ~has(ret.id)

\* ------------------------------------- the codecs, character by character
\* FileStorage[ItemModel] of tests/unit/backends/files/test_storage.py: the
\* text a save writes and what a load reads out of it.  A string is the
\* sequence of its characters and a file's content a sequence of characters
\* and of JSON / XML tokens (none of which holds a "-").

\* The delimiter of the frontmatter.
Dashes == <<"-", "-", "-">>
\* Field values: "", "a", "---", "a---b".
Strings == { <<>>, <<"a">>, Dashes, <<"a">> \o Dashes \o <<"b">> }
\* An optional field: None, or a value.
None == <<>>
Some(v) == <<v>>
\* tags: list[str] -- [], ["a"], ["a", "b"], [""].
TagLists == { <<>>, << <<"a">> >>, << <<"a">>, <<"b">> >>, << <<>> >> }
\* meta: dict[str, Any] -- {} and {"k": "a"}, as key / value pairs in order.
Metas == { <<>>, << [k |-> "k", v |-> <<"a">>] >> }
\* description: str | None -- None, "", "a", "---".
Descriptions == {None, Some(<<>>), Some(<<"a">>), Some(Dashes)}
\* ItemModel(name, tags, meta, description): the items that differ from
\* ItemModel(name="a") in one field.
Item(n, t, m, d) == [name |-> n, tags |-> t, meta |-> m, description |-> d]
Items ==
    { Item(n, <<>>, <<>>, None) : n \in Strings }
        \cup { Item(<<"a">>, t, <<>>, None) : t \in TagLists }
        \cup { Item(<<"a">>, <<>>, m, None) : m \in Metas }
        \cup { Item(<<"a">>, <<>>, <<>>, d) : d \in Descriptions }
\* The items saved as a second document: one free of "---" and one with it.
OtherItems == { Item(<<"a">>, <<>>, <<>>, d) : d \in {None, Some(Dashes)} }

\* What a decoder returns: the entity, or the exception it raised.
Decoded(e) == [ents |-> <<e>>, err |-> ""]
Raised(err) == [ents |-> <<>>, err |-> err]

\* json.dumps of a string, of a list of strings, of a dict of strings.
JsonString(x) == <<"\"">> \o x \o <<"\"">>
RECURSIVE JsonItems(_)
JsonItems(l) ==
    IF l = <<>> THEN <<>>
    ELSE JsonString(l[1]) \o (IF Len(l) > 1 THEN <<",">> ELSE <<>>) \o JsonItems(Tail(l))
RECURSIVE JsonPairs(_)
JsonPairs(m) ==
    IF m = <<>> THEN <<>>
    ELSE <<m[1].k, ":">> \o JsonString(m[1].v)
            \o (IF Len(m) > 1 THEN <<",">> ELSE <<>>) \o JsonPairs(Tail(m))

\* json.dumps(entity.model_dump(mode="json")): every field, None as null.
JsonDumps(e) ==
    <<"{", "name", ":">> \o JsonString(e.name)
        \o <<",", "tags", ":", "[">> \o JsonItems(e.tags) \o <<"]">>
        \o <<",", "meta", ":", "{">> \o JsonPairs(e.meta) \o <<"}">>
        \o <<",", "description", ":">>
        \o (IF e.description = None THEN <<"null">> ELSE JsonString(e.description[1]))
        \o <<"}">>

\* Leading and trailing newlines, which json.loads skips.
RECURSIVE Strip(_)
Strip(t) ==
    IF t # <<>> /\ t[1] = "\n" THEN Strip(Tail(t))
    ELSE IF t # <<>> /\ t[Len(t)] = "\n" THEN Strip(SubSeq(t, 1, Len(t) - 1))
    ELSE t

\* json.loads, then model_validate: the entity whose dump the text is; a text
\* that is no complete JSON document raises JSONDecodeError.
JsonLoads(t) ==
    LET hits == { e \in Items : JsonDumps(e) = Strip(t) }
    IN  IF hits = {} THEN Raised("JSONDecodeError") ELSE Decoded(CHOOSE e \in hits : TRUE)

\* _save_markdown: "---\n" + json.dumps(data, indent=2) + "\n---\n".
MarkdownText(e) == Dashes \o <<"\n">> \o JsonDumps(e) \o <<"\n">> \o Dashes \o <<"\n">>

\* content.split("---", 2) cuts at the first places the three characters
\* stand: the first such position at or after from, 0 when there is none.
Find(content, from) ==
    LET at == { i \in from..(Len(content) - 2) : SubSeq(content, i, i + 2) = Dashes }
    IN  IF at = {} THEN 0 ELSE CHOOSE i \in at : \A j \in at : i <= j

\* _load_markdown: the content must start with "---"; parts[1] of
\* content.split("---", 2) goes to json.loads; every failure ends in the
\* ValueError("Invalid markdown format").
LoadMarkdown(content) ==
    IF Len(content) >= 3 /\ SubSeq(content, 1, 3) = Dashes
    THEN LET close == Find(content, 4)
         IN  IF close = 0 THEN Raised("ValueError")
             ELSE LET r == JsonLoads(SubSeq(content, 4, close - 1))
                  IN  IF r.err = "" THEN r ELSE Raised("ValueError")
    ELSE Raised("ValueError")

\* An XML element: its tag, its text (None when it has none) and its children.
Element(tag, text, children) == [tag |-> tag, text |-> text, children |-> children]

\* dict_to_xml over model_dump(exclude_none=True): a child per key with
\* text str(value), one child per item of a list, the children of a dict
\* under a child of their own; a None field has no key.
DictToXml(e) ==
    << Element("name", Some(e.name), <<>>) >>
        \o [i \in 1..Len(e.tags) |-> Element("tags", Some(e.tags[i]), <<>>)]
        \o << Element("meta", None,
                      [i \in 1..Len(e.meta) |->
                          Element(e.meta[i].k, Some(e.meta[i].v), <<>>)]) >>
        \o (IF e.description = None THEN <<>>
            ELSE << Element("description", e.description, <<>>) >>)

\* tostring / toprettyxml / ET.parse: an element written with the text "" is
\* the empty element, whose text reads back as None.
RECURSIVE ParseXml(_)
ParseXml(elems) ==
    [i \in 1..Len(elems) |->
        Element(elems[i].tag,
                IF elems[i].text = Some(<<>>) THEN None ELSE elems[i].text,
                ParseXml(elems[i].children))]

\* Values of the dict xml_to_dict builds: an element's text, a nested dict (key /
\* value pairs in order) or a list.
TextVal(text) == [kind |-> "text", text |-> text]
DictVal(items) == [kind |-> "dict", items |-> items]
ListVal(items) == [kind |-> "list", items |-> items]

HasKey(d, key) == \E i \in 1..Len(d) : d[i].k = key
Lookup(d, key) == d[CHOOSE i \in 1..Len(d) : d[i].k = key].v
Assign(d, key, val) ==
    IF HasKey(d, key) THEN [i \in 1..Len(d) |-> IF d[i].k = key THEN [k |-> key, v |-> val] ELSE d[i]]
    ELSE Append(d, [k |-> key, v |-> val])

\* xml_to_dict: a child with children recurses, another gives its text; a tag
\* met again turns its value into a list and appends.
RECURSIVE XmlToDictInto(_, _)
XmlToDictInto(elems, result) ==
    IF elems = <<>> THEN result
    ELSE LET child == elems[1]
             val == IF Len(child.children) > 0
                    THEN DictVal(XmlToDictInto(child.children, <<>>))
                    ELSE TextVal(child.text)
             old == Lookup(result, child.tag)
             next == IF HasKey(result, child.tag)
                     THEN Assign(result, child.tag,
                                 IF old.kind = "list" THEN ListVal(Append(old.items, val))
                                 ELSE ListVal(<<old, val>>))
                     ELSE Assign(result, child.tag, val)
         IN  XmlToDictInto(Tail(elems), next)
XmlToDict(elems) == XmlToDictInto(elems, <<>>)

\* _load_xml, get_origin(annotation) is list: a value that is no list is wrapped.
WrapList(val) == IF val.kind = "list" THEN val ELSE ListVal(<<val>>)
\* _load_xml, get_origin(annotation) is dict: None becomes {}.
EmptyDict(val) == IF val = TextVal(None) THEN DictVal(<<>>) ELSE val

\* The post-processing loop of _load_xml over ItemModel.model_fields.
PostProcess(data) ==
    LET d1 == IF HasKey(data, "tags") THEN Assign(data, "tags", WrapList(Lookup(data, "tags")))
              ELSE data
    IN  IF HasKey(d1, "meta") THEN Assign(d1, "meta", EmptyDict(Lookup(d1, "meta"))) ELSE d1

\* ItemModel.model_validate(data): name is a required str, tags a list of str
\* (default []), meta a dict (default {}), description a str or None (default
\* None); a value of another shape raises ValidationError.
IsStr(val) == val.kind = "text" /\ val.text # None
ValidateItem(data) ==
    LET tagv == IF HasKey(data, "tags") THEN Lookup(data, "tags") ELSE ListVal(<<>>)
        metav == IF HasKey(data, "meta") THEN Lookup(data, "meta") ELSE DictVal(<<>>)
        descv == IF HasKey(data, "description") THEN Lookup(data, "description") ELSE TextVal(None)
    IN  IF /\ HasKey(data, "name")
           /\ IsStr(Lookup(data, "name"))
           /\ tagv.kind = "list"
           /\ \A i \in 1..Len(tagv.items) : IsStr(tagv.items[i])
           /\ metav.kind = "dict"
           /\ \A i \in 1..Len(metav.items) : IsStr(metav.items[i].v)
           /\ descv.kind = "text"
        THEN Decoded([name |-> Lookup(data, "name").text[1],
                      tags |-> [i \in 1..Len(tagv.items) |-> tagv.items[i].text[1]],
                      meta |-> [i \in 1..Len(metav.items) |->
                                   [k |-> metav.items[i].k, v |-> metav.items[i].v.text[1]]],
                      description |-> descv.text])
        ELSE Raised("ValidationError")

\* _load_xml, then model_validate.
LoadXml(elems) == ValidateItem(PostProcess(XmlToDict(ParseXml(elems))))

\* save(): the content written in one format.
ItemContent(fmt, e) ==
    CASE fmt = "json" -> JsonDumps(e)
      [] fmt = "md"   -> MarkdownText(e)
      [] fmt = "xml"  -> DictToXml(e)

\* load(): decode by the suffix of the file found; <<>> and no error is None.
ItemLoad(fs, id) ==
    LET path == FindEntityFile(fs, id)
    IN  IF path = <<>> THEN Raised("")
        ELSE LET content == ReadFile(fs, path[1])
             IN  CASE path[1].ext = "json" -> JsonLoads(content)
                   [] path[1].ext = "md"   -> LoadMarkdown(content)
                   [] path[1].ext = "xml"  -> LoadXml(content)

\* Mutant: load_all lets the exception of a load through.
SwallowsNever(err) == FALSE
\* load_all(): "except Exception: continue" around each load.
Swallows(err) == err # ""

\* load_all(): <<>> in err when it returned; the documents it loaded.
RECURSIVE ItemCollectAll(_, _, _)
ItemCollectAll(fs, order, i) ==
    IF i > Len(order) THEN Decoded(<<>>)
    ELSE LET f == order[i]
             got == IF f.friendly = "" THEN ItemLoad(fs, f.id) ELSE Raised("")
             rest == ItemCollectAll(fs, order, i + 1)
         IN  IF got.err # "" /\ ~Swallows(got.err) THEN Raised(got.err)
             ELSE IF rest.err # "" THEN rest
             ELSE Decoded(got.ents \o rest.ents[1])

\* The documents of the codec model: ItemId takes every item in every format,
\* OtherId one of OtherItems as markdown.
ItemId == 1
OtherId == 2
ItemSaves ==
    { [id |-> ItemId, e |-> e, fmt |-> fmt] : e \in Items, fmt \in {"json", "md", "xml"} }
        \cup { [id |-> OtherId, e |-> e, fmt |-> "md"] : e \in OtherItems }

\* save(item, id, fmt) for each format with a codec.
ItemSaveCall ==
    \E a \in ItemSaves :
        LET existing == FindEntityFile(files, a.id)
            fs1 == RemoveOther(files, existing, a.fmt)
        IN  /\ files' = WriteFile(fs1, FilePath(a.id, a.fmt), ItemContent(a.fmt, a.e))
            /\ ret' = [Call("save", a.id, a.fmt, TRUE, "", 0, <<a.e>>)
                          EXCEPT !.before = FoundExt(files, a.id)]
            /\ UNCHANGED <<meta, next_id, default_format, instance, backend, kind, otherVars, pluginVars,
                           memVars, issued, removed>>

\* load(id)
ItemLoadCall ==
    \E id \in {ItemId, OtherId} :
        LET r == ItemLoad(files, id)
        IN  /\ ret' = Call("load", id, FoundExt(files, id), r.err = "", r.err, 0, r.ents)
            /\ UNCHANGED <<storeVars, backend, kind, otherVars, pluginVars, memVars, issued, removed>>

\* load_all()
ItemLoadAllCall ==
    \E order \in DirOrders(files) :
        LET r == ItemCollectAll(files, order, 1)
        IN  /\ ret' = Call("load_all", 0, NoFmt, r.err = "", r.err, 0,
                           IF r.err = "" THEN r.ents[1] ELSE <<>>)
            /\ UNCHANGED <<storeVars, backend, kind, otherVars, pluginVars, memVars, issued, removed>>

NextCodec ==
    \/ ItemSaveCall
    \/ ItemLoadCall
    \/ ItemLoadAllCall

\* FileStorage(root, "items", ItemModel) on an empty directory.
InitCodec == InitStore("storage", {"item"}) /\ default_format = "json"

SpecCodec == InitCodec /\ [][NextCodec]_vars

\* ------------------------------------------------------------ codec claims

\* C11: for json and md, a load that directly follows save(entity, id, fmt)
\* returns an entity equal to the one saved on every field (None staying None),
\* for field values among None, "" and strings that contain "---".
C11_JsonMdRoundTrip ==
    [][ (ret.op = "save" /\ ret.fmt \in {"json", "md"}
            /\ ret'.op = "load" /\ ret'.id = ret.id) =>
            (ret'.ok /\ ret'.ents = ret.ents)
      ]_vars

\* C12: for xml, a load that directly follows save(entity, id, "xml") returns
\* the entity saved: a one-element list as a one-element list, a longer list in
\* its order, a None field as None, an empty mapping as an empty mapping, every
\* other scalar field equal.
C12_XmlRoundTrip ==
    [][ (ret.op = "save" /\ ret.fmt = "xml" /\ ret'.op = "load" /\ ret'.id = ret.id) =>
            (ret'.ok /\ ret'.ents = ret.ents)
      ]_vars

\* The stored documents load(id) returns an entity for.
Decodable == { f \in files : ItemLoad(files, f.id).err = "" }

\* C20, as the code has it: load(id) of a stored document that cannot be
\* decoded raises, while load_all never raises: it returns one entity per
\* document that decodes and leaves the others out.
C20_LoadRaisesLoadAllSkips ==
    /\ (ret.op = "load" /\ \E f \in files : f.id = ret.id) =>
           (ret.ok <=> ret.ents # <<>>)
    /\ ret.op = "load_all" =>
           (ret.ok /\ Len(ret.ents) = Cardinality(Decodable))

\* C20 witness: load_all returned one document and left out another, which
\* load(id) answers with an exception.
C20_Witness ==
    /\ ret.op = "load_all"
    /\ ret.ok
    /\ Len(ret.ents) = 1
    /\ Cardinality(files) = 2

\* C20 as stated: a document that cannot be decoded is never silently missing:
\* a load_all that returns gives one entity per stored document.
C20_NoSilentLoss ==
    (ret.op = "load_all" /\ ret.ok) => Len(ret.ents) = Cardinality(files)

\* ------------------------------------------- a directory with a YAML document

\* The suffixes of a YAML document.
YamlExtensions == {"yaml", "yml"}

\* A YAML file written by hand into the entity directory
\* ("id: 3\nname: manual_yaml\n"): the mapping of the entity's fields.
YamlDoc(e) == [text |-> FALSE, fields |-> ModelDump(e, FALSE)]

\* A FileStorage constructed on a directory that holds one YAML document and
\* the counter right after its ID.  storage.py imports no YAML codec, so the
\* store behaves the same whether or not one is installed.
InitYaml ==
    /\ PristineProcess
    /\ installed = TRUE
    /\ \E id \in 1..MaxId, ext \in YamlExtensions :
        /\ files = { [id |-> id, friendly |-> "", ext |-> ext,
                      doc |-> YamlDoc(MakeEntity(id, [name |-> "Acme", note |-> Null]))] }
        /\ meta = SaveMeta(id + 1)
    /\ next_id = LoadMeta(meta)
    /\ default_format \in DefaultFormats
    /\ instance = 0
    /\ backend = "storage"
    /\ kind = "item"
    /\ mem = <<>>
    /\ mem_next_id = 1
    /\ issued = <<>>
    /\ removed = 0
    /\ ret = NoCall

SpecYaml == InitYaml /\ [][NextFormats]_vars

\* C13: with a YAML codec installed, save(entity, id, "yaml") writes
\* "{id}.yaml"; and a document stored as "{id}.yaml" or "{id}.yml" is found by
\* its ID: load(id) returns it, load_all includes it, delete removes it.
C13_YamlLikeOtherFormats ==
    LET has(id) == \E f \in files : f.id = id
    IN  /\ (ret.op = "save" /\ ret.fmt = "yaml") =>
               (ret.ok /\ Exists(files, FilePath(ret.id, "yaml")))
        /\ ret.op = "load" => (ret.ents # <<>> <=> has(ret.id))
        /\ ret.op = "load_all" => Len(ret.ents) = Cardinality({ f.id : f \in files })
        /\ ret.op = "delete" => ~has(ret.id)

\* C14: without a YAML codec, saves in json, xml and md succeed, while
\* save(entity, id, "yaml") and load(id) of an ID whose document is a YAML file
\* raise ImportError.
C14_YamlErrorDeferred ==
    /\ (ret.op = "save" /\ ret.fmt \in {"json", "xml", "md"}) => ret.ok
    /\ (ret.op = "save" /\ ret.fmt = "yaml") => ret.err = "ImportError"
    /\ (ret.op = "load" /\ \E f \in files : f.id = ret.id /\ f.ext \in YamlExtensions) =>
           ret.err = "ImportError"

\* ------------------------------------------------------- the plugin system
\* PluginRegistry (plugins/registry.py), RepositoryFactory (plugins/factory.py)
\* and the plugins of the memory, files and SQL backends.

\* The repositories a plugin hands out: create_<kind>_repository.
Kinds == {"invoice", "client", "payment", "company", "product", "payment_note", "audit"}

\* The plugin classes of the backends, in the order in which
\* _ensure_backends_registered imports their modules.
BackendClasses ==
    <<"MemoryPlugin", "FilesPlugin", "SQLitePlugin", "PostgresPlugin", "MySQLPlugin">>
\* The subclasses of SQLModelBasePlugin; their modules import sqlmodel.
SqlClasses == {"SQLitePlugin", "PostgresPlugin", "MySQLPlugin"}
\* The plugin modules the packages py_invoices.backends.memory and
\* py_invoices.backends.sqlite import, so that a caller may import them itself.
PackageImports == {"MemoryPlugin", "SQLitePlugin"}
\* Two plugin classes of a third party, both named "custom".
CustomClasses == {"CustomPlugin", "OtherCustomPlugin"}

\* plugin.name
PluginName(cls) ==
    CASE cls = "MemoryPlugin"   -> "memory"
      [] cls = "FilesPlugin"    -> "files"
      [] cls = "SQLitePlugin"   -> "sqlite"
      [] cls = "PostgresPlugin" -> "postgres"
      [] cls = "MySQLPlugin"    -> "mysql"
      [] OTHER                  -> "custom"

\* The backend names a caller asks for; "invalid" is the name of no plugin.
BackendArgs == {"memory", "files", "sqlite", "postgres", "mysql", "invalid"}

\* ret of a call into the plugin system: name is its argument, names a list of
\* plugin names it returned or put into its message, before what held when
\* it started.
PluginCall(op, name, ok, err, names) ==
    [op |-> op, name |-> name, ok |-> ok, err |-> err, names |-> names, before |-> ""]

\* list(cls._plugins.keys())
Names(reg) == [i \in 1..Len(reg) |-> reg[i].name]
\* plugin_name in cls._plugins
Registered(reg, name) == \E i \in 1..Len(reg) : reg[i].name = name
\* cls._plugins.get(name): <<>> is None.
Get(reg, name) ==
    IF Registered(reg, name)
    THEN << reg[CHOOSE i \in 1..Len(reg) : reg[i].name = name].cls >>
    ELSE <<>>
\* cls._plugins.pop(name, None)
RECURSIVE Pop(_, _)
Pop(reg, name) ==
    IF reg = <<>> THEN <<>>
    ELSE IF reg[1].name = name THEN Pop(Tail(reg), name)
    ELSE <<reg[1]>> \o Pop(Tail(reg), name)

\* Mutant: register binds the name to the new class whatever was bound.
RegisterOverwrite(reg, cls) ==
    [plugins |-> Append(Pop(reg, PluginName(cls)), [name |-> PluginName(cls), cls |-> cls]),
     err |-> ""]
\* PluginRegistry.register(plugin_class): [plugins, err].  The name is read off
\* an instance made for that purpose only.
Register(reg, cls) ==
    IF Registered(reg, PluginName(cls))
    THEN [plugins |-> reg, err |-> "ValueError: already registered"]
    ELSE [plugins |-> Append(reg, [name |-> PluginName(cls), cls |-> cls]), err |-> ""]

\* Mutant: an import runs the module's body again every time.
ModuleCachedNever(mods, cls) == FALSE
\* "from ..backends.x.plugin import XPlugin": a module found in sys.modules
\* is not executed again.
ModuleCached(mods, cls) == cls \in mods

\* The import of a backend's plugin module: [plugins, modules, err].  A module
\* not imported yet is executed; it raises ImportError when its dependencies are
\* missing, else its last statement is PluginRegistry.register(XPlugin), and a
\* module whose body raised is not kept in sys.modules.
ImportPlugin(reg, mods, inst, cls) ==
    IF ModuleCached(mods, cls) THEN [plugins |-> reg, modules |-> mods, err |-> ""]
    ELSE IF cls \in SqlClasses /\ ~inst
    THEN [plugins |-> reg, modules |-> mods, err |-> "ImportError"]
    ELSE LET r == Register(reg, cls)
         IN  IF r.err = "" THEN [plugins |-> r.plugins, modules |-> mods \cup {cls}, err |-> ""]
             ELSE [plugins |-> reg, modules |-> mods, err |-> r.err]

\* _ensure_backends_registered from its i-th import on: ImportError is caught,
\* any other exception ends the call; _registered_backends is set once the
\* second import (files) is through.
RECURSIVE EnsureFrom(_, _, _, _, _)
EnsureFrom(i, reg, mods, flag, inst) ==
    IF i > Len(BackendClasses)
    THEN [plugins |-> reg, modules |-> mods, flag |-> flag, err |-> ""]
    ELSE LET r == ImportPlugin(reg, mods, inst, BackendClasses[i])
         IN  IF r.err \notin {"", "ImportError"}
             THEN [plugins |-> r.plugins, modules |-> r.modules, flag |-> flag, err |-> r.err]
             ELSE EnsureFrom(i + 1, r.plugins, r.modules, flag \/ i >= 2, inst)

\* RepositoryFactory._ensure_backends_registered(): [plugins, modules, flag, err].
EnsureBackendsRegistered(reg, mods, flag, inst) ==
    IF flag THEN [plugins |-> reg, modules |-> mods, flag |-> flag, err |-> ""]
    ELSE EnsureFrom(1, reg, mods, flag, inst)

\* Mutant: the message of the unknown-backend error lists no name.
AvailableNone(reg) == <<>>
\* "available = PluginRegistry.list_plugins()", printed as "none" when empty.
Available(reg) == IF reg = <<>> THEN <<"none">> ELSE Names(reg)

\* Mutant: initialize leaves the audit repository out.
InitializedKindsButAudit(cls) == Kinds \ {"audit"}
\* initialize(): the kinds create_<kind>_repository serves afterwards -- the
\* memory and files plugins fill the seven _<kind>_repo fields, the SQL plugins
\* open the session every create checks.
InitializedKinds(cls) == Kinds

\* plugin_class(): no repository field and no session is set.
NewInstance(cls, owner) ==
    [cls |-> cls, ready |-> {}, initialized |-> FALSE, cleanups |-> 0, owner |-> owner]
\* plugin.initialize(**config) that returned.
InitializePlugin(p) == [p EXCEPT !.ready = InitializedKinds(p.cls), !.initialized = TRUE]
\* plugin.cleanup(): the SQL plugins close the session and set it to None, the
\* memory plugin empties its repositories, the files plugin does nothing.
CleanupPlugin(p) ==
    [p EXCEPT !.cleanups = @ + 1,
              !.ready = IF p.cls \in SqlClasses THEN {} ELSE @]

\* Number of explicit cleanup() calls followed on one plugin instance.
MaxCleanups == 1

\* A caller imports py_invoices.backends.memory or py_invoices.backends.sqlite.
ImportBackend ==
    /\ \E cls \in PackageImports :
        LET r == ImportPlugin(plugins, modules, installed, cls)
        IN  /\ plugins' = r.plugins
            /\ modules' = r.modules
            /\ ret' = PluginCall("import", cls, r.err = "", r.err, <<>>)
    /\ UNCHANGED <<storeVars, backend, kind, otherVars, memVars, issued, removed,
                   registered_backends, installed, plugin, block>>

\* PluginRegistry.register(plugin_class), the class one the caller has.
RegisterCall ==
    /\ \E cls \in (modules \cup CustomClasses) :
        LET r == Register(plugins, cls)
        IN  /\ plugins' = r.plugins
            /\ ret' = PluginCall("register", cls, r.err = "", r.err, <<>>)
    /\ UNCHANGED <<storeVars, backend, kind, otherVars, memVars, issued, removed,
                   registered_backends, modules, installed, plugin, block>>

\* PluginRegistry.unregister(name)
UnregisterCall ==
    /\ \E name \in {"memory", "sqlite", "custom", "invalid"} :
        /\ plugins' = Pop(plugins, name)
        /\ ret' = PluginCall("unregister", name, TRUE, "", <<>>)
    /\ UNCHANGED <<storeVars, backend, kind, otherVars, memVars, issued, removed,
                   registered_backends, modules, installed, plugin, block>>

\* PluginRegistry.clear()
ClearCall ==
    /\ plugins' = <<>>
    /\ ret' = PluginCall("clear", "", TRUE, "", <<>>)
    /\ UNCHANGED <<storeVars, backend, kind, otherVars, memVars, issued, removed,
                   registered_backends, modules, installed, plugin, block>>

\* PluginRegistry.get(name): names holds the class returned.
GetCall ==
    /\ \E name \in {"memory", "sqlite", "custom", "invalid"} :
        ret' = PluginCall("get", name, TRUE, "", Get(plugins, name))
    /\ UNCHANGED <<storeVars, backend, kind, otherVars, memVars, issued, removed, pluginVars>>

\* PluginRegistry.list_plugins()
ListPluginsCall ==
    /\ ret' = PluginCall("list_plugins", "", TRUE, "", Names(plugins))
    /\ UNCHANGED <<storeVars, backend, kind, otherVars, memVars, issued, removed, pluginVars>>

\* RepositoryFactory(backend=name), plain or as the resource of a with-block.
\* ok says whether the SQL plugin's initialize reaches its database.
NewFactory ==
    /\ block = "outside"
    /\ \E name \in BackendArgs, scoped \in BOOLEAN, db_ok \in BOOLEAN :
        LET ens == EnsureBackendsRegistered(plugins, modules, registered_backends, installed)
            found == Get(ens.plugins, name)
            was == IF registered_backends THEN "registered" ELSE ""
        IN  /\ plugins' = ens.plugins
            /\ modules' = ens.modules
            /\ registered_backends' = ens.flag
            /\ IF ens.err # ""
               THEN /\ ret' = [PluginCall("factory", name, FALSE, ens.err, <<>>)
                                  EXCEPT !.before = was]
                    /\ UNCHANGED <<plugin, block>>
               ELSE IF found = <<>>
               THEN /\ ret' = [PluginCall("factory", name, FALSE, "ValueError: Unknown backend",
                                          Available(ens.plugins))
                                  EXCEPT !.before = was]
                    /\ UNCHANGED <<plugin, block>>
               ELSE IF found[1] \in SqlClasses /\ ~db_ok
               THEN /\ ret' = [PluginCall("factory", name, FALSE, "SQLAlchemyError", <<>>)
                                  EXCEPT !.before = was]
                    /\ UNCHANGED <<plugin, block>>
               ELSE /\ plugin' = InitializePlugin(NewInstance(found[1], "factory"))
                    /\ block' = IF scoped THEN "inside" ELSE "outside"
                    /\ ret' = [PluginCall("factory", name, TRUE, "", <<>>)
                                  EXCEPT !.before = was]
    /\ UNCHANGED <<storeVars, backend, kind, otherVars, memVars, issued, removed, installed>>

\* plugin_class() by a caller, of a registered class.
NewPlugin ==
    /\ block = "outside"
    /\ \E i \in 1..Len(plugins) :
        /\ plugin' = NewInstance(plugins[i].cls, "caller")
        /\ ret' = PluginCall("new_plugin", plugins[i].cls, TRUE, "", <<>>)
    /\ UNCHANGED <<storeVars, backend, kind, otherVars, memVars, issued, removed,
                   plugins, registered_backends, modules, installed, block>>

\* plugin.initialize() by the caller who made the instance.
Initialize ==
    /\ plugin.owner = "caller"
    /\ ~plugin.initialized
    /\ \E db_ok \in BOOLEAN :
        IF plugin.cls \in SqlClasses /\ ~db_ok
        THEN /\ ret' = PluginCall("initialize", plugin.cls, FALSE, "SQLAlchemyError", <<>>)
             /\ UNCHANGED plugin
        ELSE /\ plugin' = InitializePlugin(plugin)
             /\ ret' = PluginCall("initialize", plugin.cls, TRUE, "", <<>>)
    /\ UNCHANGED <<storeVars, backend, kind, otherVars, memVars, issued, removed,
                   plugins, registered_backends, modules, installed, block>>

\* create_<kind>_repository(), on the factory or on the plugin itself.
CreateRepository ==
    /\ plugin # NoPlugin
    /\ \E k \in Kinds :
        ret' = IF k \in plugin.ready
               THEN PluginCall("create_repository", k, TRUE, "", <<>>)
               ELSE PluginCall("create_repository", k, FALSE,
                               "RuntimeError: Plugin not initialized", <<>>)
    /\ UNCHANGED <<storeVars, backend, kind, otherVars, memVars, issued, removed, pluginVars>>

\* factory.cleanup() / plugin.cleanup() called by hand.
Cleanup ==
    /\ plugin # NoPlugin
    /\ plugin.cleanups < MaxCleanups
    /\ plugin' = CleanupPlugin(plugin)
    /\ ret' = PluginCall("cleanup", plugin.cls, TRUE, "", <<>>)
    /\ UNCHANGED <<storeVars, backend, kind, otherVars, memVars, issued, removed,
                   plugins, registered_backends, modules, installed, block>>

\* Mutant: __exit__ returns a true value.
ExitReturnTrue == TRUE
\* __exit__ returns None: the exception of the body is not suppressed.
ExitReturn == FALSE

\* The with-block is left, its body finished or raised: __exit__ runs
\* self.cleanup(), and the exception goes on unless __exit__ returned true.
WithExit ==
    /\ block = "inside"
    /\ \E raised \in BOOLEAN :
        /\ plugin' = CleanupPlugin(plugin)
        /\ block' = "outside"
        /\ ret' = PluginCall("with_exit", IF raised THEN "raised" ELSE "finished",
                             ~(raised /\ ~ExitReturn),
                             IF raised /\ ~ExitReturn THEN "exception of the body" ELSE "",
                             <<>>)
    /\ UNCHANGED <<storeVars, backend, kind, otherVars, memVars, issued, removed,
                   plugins, registered_backends, modules, installed>>

\* A process that has imported py_invoices and nothing of its backends, with
\* the SQL dependencies installed or not.
InitProcess ==
    /\ PristineProcess
    /\ installed \in BOOLEAN
    /\ files = {}
    /\ meta = NoMeta
    /\ next_id = 1
    /\ default_format = "json"
    /\ instance = 0
    /\ backend = "plugins"
    /\ kind = "none"
    /\ mem = <<>>
    /\ mem_next_id = 1
    /\ issued = <<>>
    /\ removed = 0
    /\ ret = PluginCall("init", "", TRUE, "", <<>>)

\* The registry and the calls that change or read it.
NextRegistry ==
    \/ ImportBackend
    \/ RegisterCall
    \/ UnregisterCall
    \/ ClearCall
    \/ GetCall
    \/ ListPluginsCall

SpecRegistry == InitProcess /\ [][NextRegistry]_vars

\* Factories and plugin instances.
NextFactory ==
    \/ ImportBackend
    \/ NewFactory
    \/ NewPlugin
    \/ Initialize
    \/ CreateRepository
    \/ Cleanup
    \/ WithExit

SpecFactory == InitProcess /\ [][NextFactory]_vars

\* ----------------------------------------------------- plugin-system claims

\* C15: every name is bound to one class; and a register of a class whose name
\* is already bound raises the duplicate-registration error and changes
\* nothing: get(name) returns the class bound first, list_plugins the same
\* names.
C15_DuplicateRegistration ==
    /\ [](\A i, j \in 1..Len(plugins) : plugins[i].name = plugins[j].name => i = j)
    /\ [][ (ret'.op = "register"
               /\ \E i \in 1..Len(plugins) : plugins[i].name = PluginName(ret'.name)) =>
              /\ ret'.err = "ValueError: already registered"
              /\ Get(plugins', PluginName(ret'.name)) = Get(plugins, PluginName(ret'.name))
              /\ Names(plugins') = Names(plugins)
         ]_vars

\* C15 witness: the register of another class under a bound name was refused.
C15_Witness ==
    /\ ret.op = "register"
    /\ ret.err = "ValueError: already registered"
    /\ ret.name = "OtherCustomPlugin"
    /\ Get(plugins, "custom") = <<"CustomPlugin">>
    /\ Len(plugins) > 1

\* C16: RepositoryFactory(backend=name) raises the unknown-backend error exactly
\* when name is not registered once the lazy registration has run; the message
\* then lists the names registered at that moment, and no plugin instance is
\* made or initialized (the plugin in hand stays the one it was).
C16_UnknownBackend ==
    [][ ret'.op = "factory" =>
          LET known == \E i \in 1..Len(plugins') : plugins'[i].name = ret'.name
          IN  /\ ~known => ret'.err = "ValueError: Unknown backend"
              /\ ret'.err = "ValueError: Unknown backend" =>
                    /\ ~known
                    /\ ret'.names = [i \in 1..Len(plugins') |-> plugins'[i].name]
                    /\ plugin' = plugin
                    /\ block' = block
      ]_vars

\* C16 witness: "sqlite" was refused because its dependencies are missing, with
\* the two registered names in the message, while an earlier factory's plugin
\* is in hand.
C16_Witness ==
    /\ ret.op = "factory"
    /\ ret.err = "ValueError: Unknown backend"
    /\ ret.name = "sqlite"
    /\ ret.names = <<"memory", "files">>
    /\ plugin.owner = "factory"

C18_LazyRegistrationOnce ==
    [][ ret'.op = "factory" =>
          /\ ret'.err # "ValueError: already registered"
          /\ registered_backends => plugins' = plugins
      ]_vars

\* C18 witness: a later construction returned, with all five backends
\* registered, the first of them by the caller's own import.
C18_Witness ==
    /\ ret.op = "factory"
    /\ ret.ok
    /\ ret.before = "registered"
    /\ Names(plugins) = <<"sqlite", "memory", "files", "postgres", "mysql">>

\* C19: leaving the with-block runs the plugin's cleanup exactly once, whether
\* the body finished or raised, and the exception of the body reaches the caller.
C19_ScopedCleanup ==
    [][ (block = "inside" /\ block' # "inside") =>
          /\ plugin'.cleanups = plugin.cleanups + 1
          /\ ret'.op = "with_exit"
          /\ ret'.name = "raised" <=> ret'.err = "exception of the body"
      ]_vars

\* C19 witness: a block whose body raised was left; cleanup ran once and the
\* exception went on.
C19_Witness ==
    /\ ret.op = "with_exit"
    /\ ret.name = "raised"
    /\ ret.err = "exception of the body"
    /\ plugin.cleanups = 1
    /\ block = "outside"

\* ------------------------------------------- the metadata record at startup

\* Something other than the store replaces or removes _meta.json between two
\* calls: a write cut short, a hand edit, a restored or deleted file.
ReplaceMeta ==
    \E m \in MetaContents :
        /\ m # meta
        /\ meta' = m
        /\ ret' = Call("meta replaced", 0, NoFmt, TRUE, "", 0, <<>>)
        /\ UNCHANGED <<files, next_id, default_format, instance, backend, kind, otherVars, pluginVars,
                       memVars, issued, removed>>

\* Instances opened one after another on a directory whose _meta.json may have
\* been replaced in between.
NextMeta ==
    \/ GetNextId(MaxAlloc)
    \/ Reopen
    \/ ReplaceMeta

SpecMeta == Init /\ [][NextMeta]_vars

\* C21: constructing a FileStorage never fails because of the metadata record:
\* with _meta.json absent, not parseable, or parsed without a usable integer
\* next_id (such as a top-level value that is not an object) the counter starts
\* at 1 and the first get_next_id returns 1; with {"next_id": n} it returns n.
C21_MetaNeverFailsConstruction ==
    [][LET n == IF meta.text = "next_id" THEN meta.next_id ELSE 1
       IN  /\ ret'.op = "open" => (ret'.ok /\ next_id' = n)
           /\ (ret.op = "open" /\ ret.ok /\ ret'.op = "get_next_id") => ret'.val = n
      ]_vars

\* ---------------------------------------------- the stores of the factories

\* The memory-backend factories of a process, by the name of the variable
\* that holds them, in the order they are built.
FactoryIds == <<"A", "B">>
\* The caller's variables that hold a repository.
RepoVars == {"r1", "r2"}
\* A variable that holds no repository yet.
NoRepo == [factory |-> "", kind |-> "", obj |-> 0]
\* The repositories the caller holds.
Held(hs) == { hs[v] : v \in RepoVars } \ {NoRepo}

\* MemoryClientRepository(): an empty _storage and, in the repositories that
\* keep one, _next_id = 1.
NewRepository(k) == [kind |-> k, storage |-> <<>>, next_id |-> 1]

\* MemoryPlugin.initialize(): one repository object per kind, constructed in
\* the order of the kinds; repos are the plugin's _<kind>_repo fields.
InitializeMemory(h) ==
    LET ks == CHOOSE s \in [1..Cardinality(MemKinds) -> MemKinds] : Range(s) = MemKinds
    IN  [heap |-> h \o [i \in 1..Len(ks) |-> NewRepository(ks[i])],
         repos |-> [k \in MemKinds |-> Len(h) + CHOOSE i \in 1..Len(ks) : ks[i] = k]]

\* Mutant: create_<kind>_repository builds a new repository on every call.
RepositoryOfNew(h, fac, k) == [heap |-> Append(h, NewRepository(k)), obj |-> Len(h) + 1]
\* create_<kind>_repository(): "return self._<kind>_repo".
RepositoryOf(h, fac, k) == [heap |-> h, obj |-> fac.repos[k]]

\* MemoryPlugin.cleanup(): self._<kind>_repo._storage.clear() for its own
\* repositories; their _next_id stays.
CleanedBy(h, fac) == { fac.repos[k] : k \in MemKinds }

\* The call on a factory, or through a repository of it: the factory and the
\* kind of the repository.
StoreCall(op, fac, k, obj, id, ok, ents) == [op |-> op, factory |-> fac, kind |-> k]

\* The create calls the repositories of the process have seen, all together,
\* as far as their state tells: the advance of the counter where there is one,
\* else the number of entities held.
RECURSIVE StoredFrom(_, _)
StoredFrom(h, i) ==
    IF i > Len(h) THEN 0
    ELSE (IF h[i].kind = "payment_note" THEN Len(h[i].storage) ELSE h[i].next_id - 1)
         + StoredFrom(h, i + 1)
Stored(h) == StoredFrom(h, 1)

\* The frame of the actions on the factories' stores.
StoresFrame ==
    UNCHANGED <<storeVars, backend, kind, peer, status, trail, pluginVars, memVars,
                issued, removed>>

\* RepositoryFactory(backend="memory"): a new plugin instance, initialized.
NewMemoryFactory ==
    \E i \in 1..Len(FactoryIds) :
        LET f == FactoryIds[i]
            r == InitializeMemory(heap)
        IN  /\ backend = "stores"
            /\ DOMAIN factories = { FactoryIds[j] : j \in 1..(i - 1) }
            /\ heap' = r.heap
            /\ factories' = [g \in DOMAIN factories \cup {f} |->
                                IF g = f THEN [repos |-> r.repos] ELSE factories[g]]
            /\ ret' = StoreCall("factory", f, "", 0, 0, TRUE, <<>>)
            /\ UNCHANGED handles
            /\ StoresFrame

\* v = factory.create_<kind>_repository()
GetRepository ==
    \E v \in RepoVars, f \in DOMAIN factories, k \in MemKinds :
        LET r == RepositoryOf(heap, factories[f], k)
        IN  /\ heap' = r.heap
            /\ handles' = [handles EXCEPT ![v] = [factory |-> f, kind |-> k, obj |-> r.obj]]
            /\ ret' = StoreCall("create_repository", f, k, r.obj, 0, TRUE, <<>>)
            /\ UNCHANGED factories
            /\ StoresFrame

\* repository.create(data), through a handle.
StoreCreate ==
    \E h \in Held(handles), p \in Payloads :
        LET repo == heap[h.obj]
            id == NewMemId(repo.kind, repo.storage, repo.next_id)
            e == MakeEntity(id, p)
        IN  /\ id <= MaxId
            /\ Stored(heap) < MaxId
            /\ heap' = [heap EXCEPT ![h.obj] =
                           [kind |-> repo.kind,
                            storage |-> DictSet(repo.storage, id, e),
                            next_id |-> AdvanceMemId(repo.kind, repo.next_id)]]
            /\ ret' = StoreCall("create", h.factory, h.kind, h.obj, id, TRUE, <<e>>)
            /\ UNCHANGED <<factories, handles>>
            /\ StoresFrame

\* repository.update(entity), through a handle.
StoreUpdate ==
    \E h \in Held(handles), p \in Payloads, id \in 1..MaxId :
        LET repo == heap[h.obj]
            e == MakeEntity(id, p)
        IN  /\ IF MemUpdateAllowed(repo.storage, id)
               THEN /\ heap' = [heap EXCEPT ![h.obj].storage = DictSet(repo.storage, id, e)]
                    /\ ret' = StoreCall("update", h.factory, h.kind, h.obj, id, TRUE, <<e>>)
               ELSE /\ heap' = heap
                    /\ ret' = StoreCall("update", h.factory, h.kind, h.obj, id, FALSE, <<e>>)
            /\ UNCHANGED <<factories, handles>>
            /\ StoresFrame

\* repository.delete(id), through a handle.
StoreDelete ==
    \E h \in Held(handles), id \in 1..MaxId :
        LET r == MemRemove(heap[h.obj].storage, id)
        IN  /\ heap' = [heap EXCEPT ![h.obj].storage = r.mem]
            /\ ret' = StoreCall("delete", h.factory, h.kind, h.obj, id, r.ok, <<>>)
            /\ UNCHANGED <<factories, handles>>
            /\ StoresFrame

\* repository.get_by_id(id), through a handle.
StoreGetById ==
    \E h \in Held(handles), id \in 1..MaxId :
        /\ ret' = StoreCall("get_by_id", h.factory, h.kind, h.obj, id,
                            DictGet(heap[h.obj].storage, id) # <<>>, <<>>)
        /\ UNCHANGED <<heap, factories, handles>>
        /\ StoresFrame

\* factory.cleanup(): MemoryPlugin.cleanup().
FactoryCleanup ==
    \E f \in DOMAIN factories :
        LET objs == CleanedBy(heap, factories[f])
        IN  /\ heap' = [i \in DOMAIN heap |->
                           IF i \in objs THEN [heap[i] EXCEPT !.storage = <<>>] ELSE heap[i]]
            /\ ret' = StoreCall("cleanup", f, "", 0, 0, TRUE, <<>>)
            /\ UNCHANGED <<factories, handles>>
            /\ StoresFrame

\* A process that has built no factory yet.  factories is a function from the
\* factories built so far to their plugin's fields, handles one from the
\* caller's variables to the repositories they hold.
InitStores ==
    /\ heap = <<>>
    /\ factories = <<>>
    /\ handles = [v \in RepoVars |-> NoRepo]
    /\ peer = NoPeer
    /\ status = "DRAFT"
    /\ trail = <<>>
    /\ plugins = <<>>
    /\ registered_backends = TRUE
    /\ modules = {}
    /\ installed = TRUE
    /\ plugin = NoPlugin
    /\ block = "outside"
    /\ files = {}
    /\ meta = NoMeta
    /\ next_id = 1
    /\ default_format = "json"
    /\ instance = 0
    /\ backend = "stores"
    /\ kind = "none"
    /\ mem = <<>>
    /\ mem_next_id = 1
    /\ issued = <<>>
    /\ removed = 0
    /\ ret = NoCall

NextStores ==
    \/ NewMemoryFactory
    \/ GetRepository
    \/ StoreCreate
    \/ StoreUpdate
    \/ StoreDelete
    \/ StoreGetById
    \/ FactoryCleanup

SpecStores == InitStores /\ [][NextStores]_vars

\* C22: exactly one store per (factory, entity kind): two repositories of the
\* same kind obtained from the same factory by separate create_<kind>_repository
\* calls see each other's creates, updates and deletes; repositories of two
\* memory-backend factories never see each other's data; and the cleanup of one
\* factory leaves the other factory's data and ID counters untouched.
C22_OneStorePerFactoryAndKind ==
    /\ [](\A h1, h2 \in Held(handles) :
            (h1.factory = h2.factory /\ h1.kind = h2.kind) => heap[h1.obj] = heap[h2.obj])
    /\ [][\A g \in DOMAIN factories, k \in MemKinds :
            LET o == factories[g].repos[k]
            IN  (g # ret'.factory \/ (ret'.op # "cleanup" /\ k # ret'.kind))
                    => heap'[o] = heap[o]
         ]_vars

\* C22 witness: the caller holds two repositories of factory A's clients that
\* show the client created through one of them, and factory B, whose client
\* repository had handed out an ID, has just been cleaned up.
C22_Witness ==
    /\ ret.op = "cleanup" /\ ret.factory = "B"
    /\ handles["r1"].factory = "A" /\ handles["r1"].kind = "client"
    /\ handles["r2"] = handles["r1"]
    /\ Len(heap[handles["r1"].obj].storage) = 1
    /\ heap[factories["B"].repos["client"]] = [kind |-> "client", storage |-> <<>>, next_id |-> 2]

\* ------------------------------------------------- metadata and audit claims

\* C23: constructing a FileStorage writes no _meta.json; the file first appears
\* on the first get_next_id, and whenever a get_next_id call has returned k the
\* file holds next_id = k + 1: between calls the persisted counter, once there
\* is one, equals the counter of the open instance.
C23_MetaFollowsCounter ==
    /\ [](/\ issued = <<>> => (meta = NoMeta /\ next_id = 1)
          /\ issued # <<>> => meta = SaveMeta(next_id)
          /\ ret.op = "get_next_id" => meta = SaveMeta(ret.val + 1))
    /\ [][ret'.op = "open" => meta' = meta]_vars

\* C23 witness: the first get_next_id of a directory, made by an instance
\* opened on it after another one, returned 1 and the file holds 2.
C23_Witness ==
    /\ ret.op = "get_next_id" /\ ret.val = 1
    /\ instance > 0
    /\ meta = SaveMeta(2)

\* ------------------------------------------ the registry under the factories

\* Factories built while the caller also unregisters backends and clears the
\* registry.
NextProcess ==
    \/ NewFactory
    \/ UnregisterCall
    \/ ClearCall

SpecProcess == InitProcess /\ [][NextProcess]_vars

\* C24: every RepositoryFactory construction ensures the built-in backends are
\* registered before the lookup: RepositoryFactory(backend="memory") succeeds
\* also when PluginRegistry.unregister("memory") or PluginRegistry.clear() was
\* called after an earlier factory construction in the same process.
C24_MemoryAlwaysConstructible ==
    [][(ret'.op = "factory" /\ ret'.name = "memory") => ret'.ok]_vars

\* ------------------------------------------------ the audit log and its clear

\* clear(): shutil.rmtree(entity_dir), mkdir, then self.storage._next_id = 1
\* and _save_meta().
AuditClear ==
    /\ backend = "audit"
    /\ files' = {}
    /\ next_id' = 1
    /\ meta' = SaveMeta(next_id')
    /\ ret' = Call("clear", 0, NoFmt, TRUE, "", 0, <<>>)
    /\ UNCHANGED <<default_format, instance, backend, kind, otherVars, pluginVars, memVars,
                   issued, removed>>

NextAuditClear ==
    \/ NextAudit
    \/ AuditClear

SpecAuditClear == InitAudit /\ [][NextAuditClear]_vars

\* C25: across any sequence of add and clear calls on a file-backed audit
\* repository the IDs allocated to log entries are strictly increasing and the
\* persisted counter never decreases: an ID allocated before a clear is not
\* allocated again after it.
C25_AuditIdsNeverReused ==
    /\ [](\A i, j \in 1..Len(issued) : i < j => issued[i].id < issued[j].id)
    /\ [][meta # NoMeta => meta'.next_id >= meta.next_id]_vars

\* ------------------------------------------ two instances on one directory

\* Mutant: get_next_id reads _meta.json again before it allocates.
CurrentIdReloaded(n, m) == LoadMeta(m)
\* get_next_id(): "current_id = self._next_id", the counter of the instance.
CurrentId(n, m) == n

\* FileStorage(root_dir, ...) once more on the directory while the first
\* instance stays in use (a second factory with the same root_dir and format).
PeerOpen ==
    /\ backend = "files"
    /\ ~peer.open
    /\ IF LoadMetaError(meta) = ""
       THEN /\ peer' = [open |-> TRUE, next_id |-> LoadMeta(meta)]
            /\ ret' = Call("open", 0, default_format, TRUE, "", 0, <<>>)
       ELSE /\ peer' = peer
            /\ ret' = Call("open", 0, default_format, FALSE, LoadMetaError(meta), 0, <<>>)
    /\ UNCHANGED <<storeVars, backend, kind, heap, factories, handles, status, trail,
                   pluginVars, memVars, issued, removed>>

\* create(data) on the repository of the second instance, which is instance 1
\* in the history of the IDs handed out.
PeerCreate ==
    /\ backend = "files"
    /\ peer.open
    /\ Len(issued) < MaxCreates
    /\ \E p \in Payloads :
        LET id == CurrentId(peer.next_id, meta)
            e == MakeEntity(id, p)
            r == StorageSave(files, default_format, e, id, NoFmt)
        IN  /\ peer' = [peer EXCEPT !.next_id = Increment(id)]
            /\ meta' = SaveMeta(peer'.next_id)
            /\ files' = r.files
            /\ issued' = Append(issued, [id |-> id, inst |-> 1])
            /\ ret' = Call("create", id, NoFmt, r.err = "", r.err, id, <<e>>)
    /\ UNCHANGED <<next_id, default_format, instance, backend, kind, heap, factories,
                   handles, status, trail, pluginVars, memVars, removed>>

NextPeer ==
    \/ FileCreate
    \/ FileGetById
    \/ PeerOpen
    \/ PeerCreate

SpecPeer == InitStore("files", FileKinds) /\ [][NextPeer]_vars

\* C26: two FileStorage instances opened on the same directory, each used
\* sequentially, are not serialized against each other.  Every create takes the
\* ID from the counter of its own instance, whatever _meta.json holds by then,
\* writes the counter back and stores its document under that ID, in place of
\* the document that was there.
C26_InstancesNotSerialized ==
    [][ret'.op = "create" =>
          LET id == ret'.val
              own == IF issued'[Len(issued')].inst = 0 THEN next_id ELSE peer.next_id
          IN  /\ id = own
              /\ meta' = SaveMeta(id + 1)
              /\ StorageLoad(files', id) = ret'.ents
              /\ StorageLoad(files, id) # <<>> => Cardinality(files') = Cardinality(files)
      ]_vars

\* C26 witness: the two instances have each allocated ID 1, and the later
\* create has replaced the document of the earlier one: two creates, one
\* document.
C26_Witness ==
    /\ Len(issued) = 2
    /\ issued[1].id = 1 /\ issued[2].id = 1
    /\ issued[1].inst # issued[2].inst
    /\ ret.op = "create" /\ ret.ents[1].name = "Acme Corp"
    /\ StorageLoad(files, 1) = ret.ents
    /\ Cardinality(files) = 1

\* ------------------------------------------------ the invoice state machine

\* Number of status changes followed on one invoice.
MaxMoves == 4

\* InvoiceStatus, the members the code names.
Statuses ==
    {"DRAFT", "SENT", "UNPAID", "PARTIALLY_PAID", "PAID", "CANCELLED", "REFUNDED", "CREDITED"}

\* Mutant: the check of the changes out of SENT is left out.
ValidateStateTransitionButSent(old_status, new_status) ==
    IF old_status = new_status THEN ""
    ELSE IF old_status \in {"CANCELLED", "REFUNDED", "CREDITED"}
    THEN "ValueError: Cannot change status from final state"
    ELSE IF old_status = "PAID" /\ new_status \notin {"REFUNDED", "CREDITED"}
    THEN "ValueError: Cannot change status from PAID"
    ELSE ""
\* BusinessValidator.validate_state_transition(old_status, new_status): the
\* error it raises, "" when it returns.
ValidateStateTransition(old_status, new_status) ==
    IF old_status = new_status THEN ""
    ELSE IF old_status \in {"CANCELLED", "REFUNDED", "CREDITED"}
    THEN "ValueError: Cannot change status from final state"
    ELSE IF old_status = "PAID" /\ new_status \notin {"REFUNDED", "CREDITED"}
    THEN "ValueError: Cannot change status from PAID"
    ELSE IF old_status = "SENT"
            /\ new_status \notin {"PAID", "PARTIALLY_PAID", "CANCELLED", "CREDITED"}
    THEN "ValueError: Cannot change status from SENT"
    ELSE ""

\* validate_state_transition(inv.status, new) and, when it returns,
\* inv.status = new.
ChangeStatus ==
    \E new \in Statuses :
        LET err == ValidateStateTransition(status, new)
        IN  /\ backend = "invoice"
            /\ Len(trail) < MaxMoves
            /\ status' = IF err = "" THEN new ELSE status
            /\ trail' = IF err = "" /\ new # status THEN Append(trail, new) ELSE trail
            /\ ret' = [op |-> "validate_state_transition", old |-> status, new |-> new,
                       ok |-> err = "", err |-> err]
            /\ UNCHANGED <<storeVars, backend, kind, heap, factories, handles, peer,
                           pluginVars, memVars, issued, removed>>

\* An invoice just created: a draft.
InitInvoice ==
    /\ InitStore("invoice", {"invoice"})
    /\ default_format = "json"

SpecInvoice == InitInvoice /\ [][ChangeStatus]_vars

\* C27: validate_state_transition(old, new) accepts old = new; rejects every
\* change out of CANCELLED, REFUNDED or CREDITED; from PAID accepts only REFUNDED
\* and CREDITED; from SENT accepts only PAID, PARTIALLY_PAID, CANCELLED and
\* CREDITED, so that SENT to DRAFT and PAID to SENT raise an error; and accepts
\* DRAFT to SENT.
C27_StateTransitions ==
    [][ret'.op = "validate_state_transition" =>
          LET old == ret'.old
              new == ret'.new
          IN  /\ ret'.ok <=> ret'.err = ""
              /\ old = new => ret'.ok
              /\ (old \in {"CANCELLED", "REFUNDED", "CREDITED"} /\ new # old) => ~ret'.ok
              /\ (old = "PAID" /\ new # old) => (ret'.ok <=> new \in {"REFUNDED", "CREDITED"})
              /\ (old = "SENT" /\ new # old)
                    => (ret'.ok <=> new \in {"PAID", "PARTIALLY_PAID", "CANCELLED", "CREDITED"})
              /\ (old = "DRAFT" /\ new = "SENT") => ret'.ok
      ]_vars

\* C27 witness: an invoice sent and paid for which the change back to SENT
\* has just been rejected.
C27_Witness ==
    /\ trail = <<"SENT", "PAID">>
    /\ status = "PAID"
    /\ ret.op = "validate_state_transition" /\ ret.new = "SENT" /\ ~ret.ok

\* C30: starting from DRAFT and following only status changes that
\* validate_state_transition accepts, over any number of steps and all invoice
\* statuses, an invoice that has once reached SENT is never in DRAFT again.
C30_NeverDraftAfterSent ==
    \A i, j \in 1..Len(trail) : (i < j /\ trail[i] = "SENT") => trail[j] # "DRAFT"

\* ------------------------------------------------------ saves that raise

\* C28: a save that raises because the requested format is not recognized
\* leaves the directory as it was before the call: a document already stored
\* under that ID is still present and load(id) still returns it.
C28_FailedSaveLeavesDirectory ==
    [][(ret'.op = "save" /\ ~ret'.ok) =>
          /\ files' = files
          /\ StorageLoad(files', ret'.id) = StorageLoad(files, ret'.id)
      ]_vars

\* ----------------------------------- a file-backed repository across reopens

\* A file-backed repository driven through create, update, delete and
\* get_by_id, closed and opened again on its directory, with the file format
\* it had, in between.
NextRepoReopen ==
    \/ FileCreate
    \/ FileGetById
    \/ FileUpdate
    \/ FileDelete
    \/ (Reopen /\ default_format' = default_format)

SpecRepoReopen == InitStore("files", FileKinds) /\ [][NextRepoReopen]_vars

\* C29: for the file-backed repositories driven only through create, update,
\* delete and the read operations, also across closing and reopening the store,
\* every stored document's ID is smaller than the persisted counter value in
\* every reachable state, so create never writes over an existing document.
C29_StoredIdsBelowCounter ==
    /\ [](/\ files # {} => meta # NoMeta
          /\ \A f \in files : f.id < meta.next_id /\ f.id < next_id)
    /\ [][ret'.op = "create" => StorageLoad(files, ret'.val) = <<>>]_vars

\* C29 witness: a repository opened again on its directory created the
\* document with ID 2 next to the stored document 1.
C29_Witness ==
    /\ ret.op = "create" /\ ret.val = 2
    /\ instance > 0
    /\ issued[1].inst # issued[2].inst
    /\ { f.id : f \in files } = {1, 2}

====
